---- MODULE Spec2Model ----
(***************************************************************************)
(* Model of the score-keeping web application in src/app.py.               *)
(*                                                                         *)
(* One browser talks to the single-threaded server.  The state is the      *)
(* browser's signed session cookie (Flask's default cookie session), the   *)
(* two database tables, the clock, the request in flight and the last      *)
(* response.  The client sends one request at a time; each route handler   *)
(* is one action that runs the whole handler, database commit and the      *)
(* saving of the session cookie included.                                  *)
(*                                                                         *)
(* Numbers are Python floats: the values of the model are the integers     *)
(* (exactly representable) and NaN, which float() parses from "nan".       *)
(***************************************************************************)
EXTENDS Integers, Sequences, FiniteSets, TLC

VARIABLES
    session,        \* the session cookie held by the browser
    user_sessions,  \* table UserSession, row i has primary key i
    game_records,   \* table GameRecord, row i has primary key i
    now,            \* the last value datetime.utcnow() returned
    req,            \* the request in flight, NoReq when the server is idle
    resp,           \* the response to the last request handled
    effects,        \* commit / render steps of the last handler, in order
    report,         \* the ranking in the report the last handler rendered
    lookup          \* the region lookup the last handler made, if any

vars == <<session, user_sessions, game_records, now, req, resp, effects, report, lookup>>

----------------------------------------------------------------------------
(* Bounds                                                                  *)

MaxRounds == 2      \* rounds settled per game
MaxTime == 3        \* readings of the clock

\* The player_count values and the name fields a client submits.  Names are
\* opaque to the program: the first player is called "B", the second "A",
\* and a third player takes the first one's name again.
PlayerCounts == {0 - 1, 0, 1, 2, 3}
NameInputs(i) == IF i = 2 THEN {" ", "A"} ELSE {" ", "B"}
WinnerInputs == {"", "A", "B", "Z"}
EntryInputs == {"", "x", "nan", "-1", "0"}

\* The client's address as get_real_ip returns it: one of the private
\* ranges, one public.
ClientIps == {"127.0.0.1", "8.8.8.8"}

\* What one requests.get of the lookup comes to: status 200 with a body that
\* names a place, with a JSON object that names none, with JSON that is no
\* object, with text that is no JSON; status 429; another status; a
\* RequestException (timeout, connection error).
LookupOutcomes ==
    {"200_place", "200_no_place", "200_not_object", "200_bad_json", "429", "500",
     "request_exception"}

----------------------------------------------------------------------------
(* Python values                                                           *)

None == <<>>
Some(x) == <<x>>

Num(n) == [nan |-> FALSE, v |-> n]
NaN == [nan |-> TRUE, v |-> 0]

FAdd(a, b) == IF a.nan \/ b.nan THEN NaN ELSE Num(a.v + b.v)
FNeg(a) == IF a.nan THEN NaN ELSE Num(0 - a.v)
FGe0_Positive(a) == ~a.nan /\ a.v > 0
\* score >= 0 : every comparison with NaN is False
FGe0(a) == ~a.nan /\ a.v >= 0

\* str.strip() on the strings the clients submit
Strip(s) == IF s = " " THEN "" ELSE s

\* float(s): raises ValueError on text that is no number
IsFloat(s) == s \in {"nan", "-1", "0"}
ToFloat(s) ==
    CASE s = "nan" -> NaN
      [] s = "-1" -> Num(0 - 1)
      [] s = "0" -> Num(0)

\* The player_count field: decimal text of an integer, or text int() rejects
\* ("x"), or no field at all ("").
IntText(n) == [text |-> "int", n |-> n]
BadText(t) == [text |-> t, n |-> 0]
IsInt(c) == c.text = "int"
ToInt(c) == c.n
CountInputs == {IntText(n) : n \in PlayerCounts} \cup {BadText("x"), BadText("")}

\* json.dumps(x): the text stored in a column; None is the SQL NULL
JsonDumps(x) == Some(x)

Range(s) == {s[i] : i \in 1..Len(s)}

\* d[k] = v on a dict
Put(d, k, v) == [x \in (DOMAIN d) \cup {k} |-> IF x = k THEN v ELSE d[x]]

----------------------------------------------------------------------------
(* Session cookie and responses                                            *)

\* An absent key is 0 (ids, counters) or the flag has_game = FALSE, which
\* stands for 'player_names' in session.
EmptySession ==
    [user_session_id |-> 0, has_game |-> FALSE, player_count |-> 0,
     player_names |-> <<>>, current_round |-> 0, scores |-> <<>>,
     round_history |-> <<>>, game_record_id |-> 0]

NoReq == [route |-> "none"]
NoResp == [kind |-> "none", what |-> "", who |-> ""]
Redirect(to) == [kind |-> "redirect", what |-> to, who |-> ""]
Page(p) == [kind |-> "page", what |-> p, who |-> ""]
ErrorText(what, who) == [kind |-> "error", what |-> what, who |-> who]

HasRosterAlways(s) == TRUE
\* 'player_names' in session
HasRoster(s) == s.has_game

SaveSessionAlways(old, new, modified) == new
\* save_session of the cookie session: the cookie is rewritten only when a
\* top-level key of the session was set or deleted during the request.
SaveSession(old, new, modified) == IF modified THEN new ELSE old

----------------------------------------------------------------------------
(* get_ip_location                                                         *)

Attempts == 2       \* for attempt in range(2)

\* The labels: the place built from the body, the label of a body without
\* one, and f'IP: {ip}'
FallbackLabel(ip) == <<"IP: ", ip>>

\* The addresses answered with the label of the local network, no request
IsLocalIp(ip) == ip = "127.0.0.1"

\* One pass of the loop body, given what its request comes to: it returns
\* a label, goes on to the next pass, or raises out of the inner try.
Attempt(ip, outcome) ==
    CASE outcome = "200_place" -> [do |-> "return", label |-> "place"]
      [] outcome = "200_no_place" -> [do |-> "return", label |-> "unknown_region"]
      [] outcome = "200_not_object" -> [do |-> "raise", label |-> ""]
      [] outcome = "429" -> [do |-> "return", label |-> FallbackLabel(ip)]
      [] OTHER -> [do |-> "continue", label |-> ""]

\* The loop inside the outer try.  attempt counts from 0 as in the code;
\* requests is the number of HTTP requests made.
RECURSIVE LookupLoop(_, _, _)
LookupLoop(ip, outcomes, attempt) ==
    IF attempt >= Attempts THEN [do |-> "fall_through", label |-> "", requests |-> attempt]
    ELSE LET a == Attempt(ip, outcomes[attempt + 1])
         IN  IF a.do = "continue" THEN LookupLoop(ip, outcomes, attempt + 1)
             ELSE a @@ [requests |-> attempt + 1]

CatchNothing(res, ip) ==
    [raised |-> res.do = "raise",
     label |-> IF res.do = "return" THEN res.label ELSE FallbackLabel(ip)]
\* except Exception around the loop, then the last line: whatever did not
\* return a label ends in the fallback.
CatchAll(res, ip) ==
    [raised |-> FALSE,
     label |-> IF res.do = "return" THEN res.label ELSE FallbackLabel(ip)]

\* The whole function: the label, the answers of the requests it made, and
\* whether an exception left it.
GetIpLocation(ip, outcomes) ==
    IF IsLocalIp(ip)
    THEN [ip |-> ip, answers |-> <<>>, raised |-> FALSE, label |-> "local_network"]
    ELSE LET res == LookupLoop(ip, outcomes, 0)
         IN  [ip |-> ip, answers |-> SubSeq(outcomes, 1, res.requests)] @@ CatchAll(res, ip)

NoLookup == [ip |-> "", answers |-> <<>>, raised |-> FALSE, label |-> ""]

----------------------------------------------------------------------------
(* setup_game                                                              *)

\* The anonymous UserSession created when the cookie carries no
\* user_session_id; login_time defaults to the time of the insert.
NewUserSession(t) == [login_time |-> t, logout_time |-> None, duration |-> None]

\* The names collected from player1..player<count>: stripped, blanks dropped.
RECURSIVE CollectNames(_, _, _)
CollectNames(fields, count, i) ==
    IF i > count THEN <<>>
    ELSE LET player_name == Strip(IF i \in DOMAIN fields THEN fields[i] ELSE "")
         IN  IF player_name # ""
             THEN <<player_name>> \o CollectNames(fields, count, i + 1)
             ELSE CollectNames(fields, count, i + 1)

\* len(player_names) != player_count is the only check made on the roster
RosterAccepted(player_names, player_count) == Len(player_names) = player_count

NewGameRecordEnded(usid, t, player_count, player_names) ==
    [user_session_id |-> usid, game_start_time |-> t, game_end_time |-> Some(t),
     player_count |-> player_count, player_names |-> JsonDumps(player_names),
     round_scores |-> None, total_scores |-> None]
\* The row setup_game inserts: the columns it does not name are NULL.
NewGameRecord(usid, t, player_count, player_names) ==
    [user_session_id |-> usid, game_start_time |-> t, game_end_time |-> None,
     player_count |-> player_count, player_names |-> JsonDumps(player_names),
     round_scores |-> None, total_scores |-> None]

\* The session keys written by a successful setup.
StartGameRoundZero(s, player_count, player_names, gid) ==
    [s EXCEPT !.has_game = TRUE,
              !.player_count = player_count,
              !.player_names = player_names,
              !.current_round = 0,
              !.scores = [n \in Range(player_names) |-> Num(0)],
              !.round_history = <<>>,
              !.game_record_id = gid]
StartGame(s, player_count, player_names, gid) ==
    [s EXCEPT !.has_game = TRUE,
              !.player_count = player_count,
              !.player_names = player_names,
              !.current_round = 1,
              !.scores = [n \in Range(player_names) |-> Num(0)],
              !.round_history = <<>>,
              !.game_record_id = gid]

\* The whole handler.  r is the request, t the clock reading it would get,
\* net the client's address and what the lookup's requests come to.
SetupGame(s, us, gr, r, t, net) ==
    LET anonymous == s.user_session_id = 0
        region == IF anonymous THEN GetIpLocation(net.ip, net.outcomes) ELSE NoLookup
        us1 == IF anonymous THEN Append(us, NewUserSession(t)) ELSE us
        s1 == IF anonymous THEN [s EXCEPT !.user_session_id = Len(us1)] ELSE s
        eff1 == IF anonymous THEN <<"commit">> ELSE <<>>
        base == [session |-> s1, modified |-> anonymous, user_sessions |-> us1,
                 game_records |-> gr, clock |-> anonymous, effects |-> eff1,
                 lookup |-> region]
    IN  IF region.raised
        \* no handler catches it: the request ends in the server's error page
        THEN [session |-> s, modified |-> FALSE, user_sessions |-> us,
              game_records |-> gr, clock |-> FALSE, effects |-> <<>>,
              lookup |-> region, resp |-> ErrorText("server_error", "")]
        ELSE IF r.method = "GET" THEN base @@ [resp |-> Page("setup")]
        ELSE IF ~IsInt(r.player_count)
        THEN base @@ [resp |-> ErrorText("exception", "")]
        ELSE LET player_count == ToInt(r.player_count)
                 player_names == CollectNames(r.fields, player_count, 1)
             IN  IF ~RosterAccepted(player_names, player_count)
                 THEN base @@ [resp |-> ErrorText("incomplete", "")]
                 ELSE [session |-> StartGame(s1, player_count, player_names, Len(gr) + 1),
                       modified |-> TRUE,
                       user_sessions |-> us1,
                       game_records |-> Append(gr, NewGameRecord(s1.user_session_id, t,
                                                                 player_count, player_names)),
                       clock |-> TRUE,
                       effects |-> eff1 \o <<"commit">>,
                       lookup |-> region,
                       resp |-> Redirect("scoring")]

----------------------------------------------------------------------------
(* scoring                                                                 *)

MustEnterNobody(player, winner) == FALSE
\* An empty score field is an error for every player but the winner.
MustEnter(player, winner) == player # winner

\* The loop over session['player_names'] (roster positions i..n); rs is
\* round_scores and tn is total_negative so far.  It stops at the first
\* return or exception.
RECURSIVE ScoreLoop(_, _, _, _, _, _)
ScoreLoop(player_names, winner, form, i, rs, tn) ==
    IF i > Len(player_names) THEN [status |-> "ok", who |-> "", rs |-> rs, tn |-> tn]
    ELSE LET player == player_names[i]
             score_value == Strip(form[player])
         IN  IF score_value # ""
             THEN IF ~IsFloat(score_value)
                  THEN [status |-> "exception", who |-> "", rs |-> rs, tn |-> tn]
                  ELSE LET score == ToFloat(score_value)
                       IN  IF player # winner /\ FGe0(score)
                           THEN [status |-> "negative", who |-> player, rs |-> rs, tn |-> tn]
                           ELSE ScoreLoop(player_names, winner, form, i + 1,
                                          Put(rs, player, score),
                                          IF player # winner THEN FAdd(tn, score) ELSE tn)
             ELSE IF MustEnter(player, winner)
                  THEN [status |-> "missing", who |-> player, rs |-> rs, tn |-> tn]
                  ELSE ScoreLoop(player_names, winner, form, i + 1, rs, tn)

\* round_scores[winner] = -total_negative
WinnerScore(total_negative) == FNeg(total_negative)

\* session['scores'][player] += score for the keys of round_scores that
\* the totals have; a key they lack raises KeyError (see Scoring).
AddScores(scores, round_scores) ==
    [p \in DOMAIN scores |->
        IF p \in DOMAIN round_scores THEN FAdd(scores[p], round_scores[p]) ELSE scores[p]]

\* The whole handler for a POST.
Scoring(s, r) ==
    LET same == [session |-> s, modified |-> FALSE]
    IN  IF ~HasRoster(s) THEN same @@ [resp |-> Redirect("setup_game")]
        ELSE IF r.method = "GET" THEN same @@ [resp |-> Page("scoring")]
        ELSE IF r.winner = "" THEN same @@ [resp |-> ErrorText("no_winner", "")]
        ELSE LET loop == ScoreLoop(s.player_names, r.winner, r.scores, 1, <<>>, Num(0))
             IN  IF loop.status # "ok"
                 THEN same @@ [resp |-> ErrorText(loop.status, loop.who)]
                 ELSE LET round_scores == Put(loop.rs, r.winner, WinnerScore(loop.tn))
                          added == [s EXCEPT !.scores = AddScores(s.scores, round_scores)]
                      IN  IF ~(DOMAIN round_scores \subseteq DOMAIN s.scores)
                          \* KeyError after the totals of the roster's players were
                          \* changed in the request's copy of the session
                          THEN [session |-> added, modified |-> FALSE,
                                resp |-> ErrorText("exception", "")]
                          ELSE [session |-> [added EXCEPT
                                                !.round_history = Append(@, round_scores),
                                                !.current_round = @ + 1],
                                modified |-> TRUE,
                                resp |-> Redirect("scoring")]

----------------------------------------------------------------------------
(* end_game, login, logout                                                 *)

\* logout_time = utcnow(); duration = int((logout_time - login_time).total_seconds())
CloseUserSession(u, t) ==
    [u EXCEPT !.logout_time = Some(t), !.duration = Some(t - u.login_time)]

FinishGameRecordNoHistory(g, t, s) ==
    [g EXCEPT !.game_end_time = Some(t), !.total_scores = JsonDumps(s.scores)]
\* The three columns end_game writes on the game's record.
FinishGameRecord(g, t, s) ==
    [g EXCEPT !.game_end_time = Some(t),
              !.round_scores = JsonDumps(s.round_history),
              !.total_scores = JsonDumps(s.scores)]

\* a < b on floats: every comparison with NaN is False
FLt(a, b) == ~a.nan /\ ~b.nan /\ a.v < b.v

\* ord() of the one-letter names; str compares by code point
Ord(name) == CASE name = "A" -> 65 [] name = "B" -> 66 [] OTHER -> 90

\* session['scores'].items() as a handler reads it in a request after the one
\* that built the dict: the app keeps Flask's default cookie session, whose
\* serialiser writes JSON with sorted keys, so the dict comes back in key
\* order, whatever order it was built in.
RECURSIVE SessionItems(_)
SessionItems(d) ==
    IF DOMAIN d = {} THEN <<>>
    ELSE LET k == CHOOSE x \in DOMAIN d : \A y \in DOMAIN d : Ord(x) <= Ord(y)
         IN  <<<<k, d[k]>>>> \o SessionItems([x \in (DOMAIN d) \ {k} |-> d[x]])

\* One item put into a list that is sorted by value, descending: after every
\* item that is not smaller, so that equal values keep the order they came in.
RECURSIVE InsertDescending(_, _)
InsertDescending(sorted, item) ==
    IF sorted = <<>> THEN <<item>>
    ELSE IF FLt(Head(sorted)[2], item[2]) THEN <<item>> \o sorted
    ELSE <<Head(sorted)>> \o InsertDescending(Tail(sorted), item)

\* sorted(items, key=lambda x: x[1], reverse=True): a stable sort
RECURSIVE SortedPlayers(_, _)
SortedPlayers(items, n) ==
    IF n = 0 THEN <<>>
    ELSE InsertDescending(SortedPlayers(items, n - 1), items[n])

\* The ranking section generate_score_pdf writes: one line per item of
\* total_scores, in sorted order.
Ranking(total_scores) ==
    LET items == SessionItems(total_scores) IN SortedPlayers(items, Len(items))

\* What end_game does between the database commit and its return:
\* pdf_ok is the value generate_score_pdf returns.
RenderReport(pdf_ok) ==
    [effects |-> <<"commit", IF pdf_ok THEN "render_ok" ELSE "render_failed">>,
     resp |-> IF pdf_ok THEN Page("end_game") ELSE Page("end_game_pdf_failed")]

\* The whole handler.  The session is only read.
EndGame(s, us, gr, t, pdf_ok) ==
    IF ~HasRoster(s)
    THEN [user_sessions |-> us, game_records |-> gr, clock |-> FALSE,
          effects |-> <<>>, resp |-> Redirect("setup_game"), report |-> <<>>]
    ELSE LET gid == s.game_record_id
             usid == s.user_session_id
             gr1 == IF gid = 0
                    THEN Append(gr, FinishGameRecord(
                            NewGameRecord(usid, t, s.player_count, s.player_names), t, s))
                    ELSE IF gid \in DOMAIN gr
                    THEN [gr EXCEPT ![gid] = FinishGameRecord(@, t, s)]
                    ELSE gr
             us1 == IF usid \in DOMAIN us
                    THEN [us EXCEPT ![usid] = CloseUserSession(@, t)]
                    ELSE us
         IN  [user_sessions |-> us1, game_records |-> gr1, clock |-> TRUE,
              report |-> IF pdf_ok THEN Ranking(s.scores) ELSE <<>>]
             @@ RenderReport(pdf_ok)

\* The whole handler for a POST with both fields present.  An exception
\* is caught and answered with the login page again.
Login(s, us, t, net) ==
    LET region == GetIpLocation(net.ip, net.outcomes)
    IN  IF region.raised
        THEN [session |-> s, user_sessions |-> us, clock |-> FALSE, effects |-> <<>>,
              lookup |-> region, resp |-> Redirect("login")]
        ELSE [session |-> [s EXCEPT !.user_session_id = Len(us) + 1],
              user_sessions |-> Append(us, NewUserSession(t)),
              clock |-> TRUE, effects |-> <<"commit">>,
              lookup |-> region, resp |-> Redirect("setup_game")]

\* The whole handler: closes the UserSession the cookie names, then
\* session.clear().
Logout(s, us, t) ==
    LET usid == s.user_session_id
        found == usid # 0 /\ usid \in DOMAIN us
    IN  [session |-> EmptySession,
         user_sessions |-> IF found THEN [us EXCEPT ![usid] = CloseUserSession(@, t)] ELSE us,
         clock |-> found,
         effects |-> IF found THEN <<"commit">> ELSE <<>>,
         resp |-> Redirect("index")]

----------------------------------------------------------------------------
(* Requests                                                                *)

\* A setup form carries player_count and the fields player1..player<count>.
NameFields(c) ==
    IF ~IsInt(c) THEN {<<>>}
    ELSE {g \in [1..ToInt(c) -> {" ", "A", "B"}] : \A i \in 1..ToInt(c) : g[i] \in NameInputs(i)}

SetupRequests ==
    {[route |-> "setup", method |-> "GET"]}
    \cup UNION {{[route |-> "setup", method |-> "POST", player_count |-> c, fields |-> f] :
                    f \in NameFields(c)} : c \in CountInputs}

\* The scoring form has one score field per name of the roster on the page.
ScoringRequests(player_names) ==
    {[route |-> "scoring", method |-> "GET"]}
    \cup {[route |-> "scoring", method |-> "POST", winner |-> w, scores |-> f] :
            w \in WinnerInputs, f \in [Range(player_names) -> EntryInputs]}

OtherRequests == {[route |-> "end_game"], [route |-> "login"], [route |-> "logout"]}

IsPost(r, route) == r.route = route /\ r.method = "POST"

\* The network a handler that looks the region up finds itself in
Networks == {[ip |-> i, outcomes |-> o] : i \in ClientIps, o \in [1..Attempts -> LookupOutcomes]}

\* setup_game looks the region up only for a cookie without user_session_id
SetupNetworks(s) ==
    IF s.user_session_id = 0 THEN Networks ELSE {[ip |-> "", outcomes |-> <<>>]}

----------------------------------------------------------------------------
(* The state machine                                                       *)

Init ==
    /\ session = EmptySession
    /\ user_sessions = <<>>
    /\ game_records = <<>>
    /\ now = 0
    /\ req = NoReq
    /\ resp = NoResp
    /\ effects = <<>>
    /\ report = <<>>
    /\ lookup = NoLookup

\* The browser sends its next request once it has read the last response.
Send ==
    /\ req = NoReq
    /\ resp = NoResp
    /\ \E r \in SetupRequests \cup ScoringRequests(session.player_names) \cup OtherRequests :
          /\ r.route # "scoring" => now < MaxTime
          /\ IsPost(r, "scoring") => Len(session.round_history) < MaxRounds
          /\ req' = r
    /\ UNCHANGED <<session, user_sessions, game_records, now, resp, effects, report, lookup>>

\* The browser reads the response.
Receive ==
    /\ resp # NoResp
    /\ resp' = NoResp
    /\ effects' = <<>>
    /\ report' = <<>>
    /\ lookup' = NoLookup
    /\ UNCHANGED <<session, user_sessions, game_records, now, req>>

HandleSetup ==
    /\ req.route = "setup"
    /\ \E net \in SetupNetworks(session) :
          LET out == SetupGame(session, user_sessions, game_records, req, now + 1, net)
          IN  /\ session' = SaveSession(session, out.session, out.modified)
              /\ user_sessions' = out.user_sessions
              /\ game_records' = out.game_records
              /\ now' = IF out.clock THEN now + 1 ELSE now
              /\ resp' = out.resp
              /\ effects' = out.effects
              /\ lookup' = out.lookup
    /\ req' = NoReq
    /\ UNCHANGED report

HandleScoring ==
    /\ req.route = "scoring"
    /\ LET out == Scoring(session, req)
       IN  /\ session' = SaveSession(session, out.session, out.modified)
           /\ resp' = out.resp
    /\ req' = NoReq
    /\ UNCHANGED <<user_sessions, game_records, now, effects, report, lookup>>

HandleEndGame ==
    /\ req.route = "end_game"
    /\ \E pdf_ok \in BOOLEAN :
          LET out == EndGame(session, user_sessions, game_records, now + 1, pdf_ok)
          IN  /\ user_sessions' = out.user_sessions
              /\ game_records' = out.game_records
              /\ now' = IF out.clock THEN now + 1 ELSE now
              /\ resp' = out.resp
              /\ effects' = out.effects
              /\ report' = out.report
    /\ req' = NoReq
    /\ UNCHANGED <<session, lookup>>

HandleLogin ==
    /\ req.route = "login"
    /\ \E net \in Networks :
          LET out == Login(session, user_sessions, now + 1, net)
          IN  /\ session' = SaveSession(session, out.session, TRUE)
              /\ user_sessions' = out.user_sessions
              /\ now' = IF out.clock THEN now + 1 ELSE now
              /\ resp' = out.resp
              /\ effects' = out.effects
              /\ lookup' = out.lookup
    /\ req' = NoReq
    /\ UNCHANGED <<game_records, report>>

HandleLogout ==
    /\ req.route = "logout"
    /\ LET out == Logout(session, user_sessions, now + 1)
       IN  /\ session' = SaveSession(session, out.session, TRUE)
           /\ user_sessions' = out.user_sessions
           /\ now' = IF out.clock THEN now + 1 ELSE now
           /\ resp' = out.resp
           /\ effects' = out.effects
    /\ req' = NoReq
    /\ UNCHANGED <<game_records, report, lookup>>

Next ==
    \/ Send
    \/ Receive
    \/ HandleSetup
    \/ HandleScoring
    \/ HandleEndGame
    \/ HandleLogin
    \/ HandleLogout

Spec == Init /\ [][Next]_vars

----------------------------------------------------------------------------
(* Vocabulary of the properties                                            *)

Last(seq) == seq[Len(seq)]

\* The sum of the values of a mapping
RECURSIVE SumValues(_)
SumValues(f) ==
    IF DOMAIN f = {} THEN Num(0)
    ELSE LET k == CHOOSE x \in DOMAIN f : TRUE
         IN  FAdd(f[k], SumValues([x \in (DOMAIN f) \ {k} |-> f[x]]))

\* One player's values added up over the rounds 1..n of a history
RECURSIVE TotalOf(_, _, _)
TotalOf(p, history, n) ==
    IF n = 0 THEN Num(0)
    ELSE FAdd(TotalOf(p, history, n - 1),
              IF p \in DOMAIN history[n] THEN history[n][p] ELSE Num(0))

\* The totals, the history and the round counter of the game in the cookie
GameState(s) == <<s.scores, s.round_history, s.current_round>>

\* The text entered for a player, trimmed
Entry(r, p) == Strip(r.scores[p])
EntryIsNumber(r, p) == IsFloat(Entry(r, p))
EntryNonNegative(r, p) ==
    EntryIsNumber(r, p) /\ ~ToFloat(Entry(r, p)).nan /\ ToFloat(Entry(r, p)).v >= 0
EntryStrictlyNegative(r, p) ==
    EntryIsNumber(r, p) /\ ~ToFloat(Entry(r, p)).nan /\ ToFloat(Entry(r, p)).v < 0
EntryMissing(r, p) == Entry(r, p) = ""

NonWinners(s, r) == Range(s.player_names) \ {r.winner}

\* A scoring POST that the handler answers with the redirect of a settled round
Settles == IsPost(req, "scoring") /\ session.has_game /\ resp' = Redirect("scoring")

\* The entry at roster position j lets the loop go on to position j + 1
EntryPasses(s, r, j) ==
    LET q == s.player_names[j]
    IN  IF EntryMissing(r, q) THEN q = r.winner
        ELSE EntryIsNumber(r, q) /\ (q = r.winner \/ ~EntryNonNegative(r, q))

\* The game in the cookie is the one an end_game request has closed
Ended(s, gr) ==
    /\ s.has_game
    /\ s.game_record_id \in DOMAIN gr
    /\ gr[s.game_record_id].game_end_time # None

----------------------------------------------------------------------------
(* C1: every round in round_history has values that sum to zero.           *)
(* Refuted: "nan" passes the check score >= 0, and a roster with a name    *)
(* twice (C9) counts that player's entry once per position.                *)
C1_ZeroSum ==
    \A i \in DOMAIN session.round_history :
        SumValues(session.round_history[i]) = Num(0)

(* C2: a settled round covers exactly the roster, every non-winner's value *)
(* is the strictly negative number entered for that player, and the        *)
(* winner's value is minus the sum of the non-winners' entries, so >= 0.   *)
(* Refuted by the same inputs as C1.                                       *)
C2_SettledRound ==
    [][Settles =>
        LET round == Last(session'.round_history)
            losers == NonWinners(session, req)
            entered == [p \in losers |-> ToFloat(Entry(req, p))]
        IN  /\ DOMAIN round = Range(session.player_names)
            /\ \A p \in losers : EntryStrictlyNegative(req, p) /\ round[p] = entered[p]
            /\ round[req.winner] = FNeg(SumValues(entered))
            /\ ~round[req.winner].nan /\ round[req.winner].v >= 0]_vars

(* C3 as stated: a scoring POST with a non-winner's entry that is 0 or     *)
(* positive is answered with an error naming such a player, and the game   *)
(* state is unchanged.  Refuted: an earlier entry that is no number (the   *)
(* winner's included) or is missing is reported first.                     *)
C3_NamesThatPlayer ==
    [][(IsPost(req, "scoring") /\ session.has_game /\ req.winner # ""
        /\ \E p \in NonWinners(session, req) : EntryNonNegative(req, p))
       => /\ resp'.kind = "error"
          /\ resp'.who \in {p \in NonWinners(session, req) : EntryNonNegative(req, p)}
          /\ GameState(session') = GameState(session)]_vars

(* C3 amended: such a POST is answered with an error and the game state is *)
(* unchanged; the error names the player when a winner was chosen and      *)
(* every entry before that player's, in roster order, passes.              *)
C3_Rejected ==
    [][(IsPost(req, "scoring") /\ session.has_game
        /\ \E p \in Range(session.player_names) : p # req.winner /\ EntryNonNegative(req, p))
       => /\ resp'.kind = "error"
          /\ GameState(session') = GameState(session)
          /\ \A i \in DOMAIN session.player_names :
                LET p == session.player_names[i]
                IN  (/\ req.winner # ""
                     /\ p # req.winner
                     /\ EntryNonNegative(req, p)
                     /\ \A j \in 1..(i - 1) : EntryPasses(session, req, j))
                    => resp' = ErrorText("negative", p)]_vars

C3_Witness ==
    /\ resp = ErrorText("negative", "B")
    /\ Len(session.round_history) > 0

(* C4 as stated: a scoring POST with no entry for some non-winner is       *)
(* answered with an error naming such a player, and the game state is      *)
(* unchanged.  Refuted like C3.                                            *)
C4_NamesThatPlayer ==
    [][(IsPost(req, "scoring") /\ session.has_game /\ req.winner # ""
        /\ \E p \in NonWinners(session, req) : EntryMissing(req, p))
       => /\ resp'.kind = "error"
          /\ resp'.who \in {p \in NonWinners(session, req) : EntryMissing(req, p)}
          /\ GameState(session') = GameState(session)]_vars

(* C4 amended: such a POST is answered with an error and the game state is *)
(* unchanged; the error names the player when a winner was chosen and      *)
(* every entry before that player's, in roster order, passes.              *)
C4_Rejected ==
    [][(IsPost(req, "scoring") /\ session.has_game
        /\ \E p \in Range(session.player_names) : p # req.winner /\ EntryMissing(req, p))
       => /\ resp'.kind = "error"
          /\ GameState(session') = GameState(session)
          /\ \A i \in DOMAIN session.player_names :
                LET p == session.player_names[i]
                IN  (/\ req.winner # ""
                     /\ p # req.winner
                     /\ EntryMissing(req, p)
                     /\ \A j \in 1..(i - 1) : EntryPasses(session, req, j))
                    => resp' = ErrorText("missing", p)]_vars

C4_Witness ==
    /\ resp = ErrorText("missing", "B")
    /\ Len(session.round_history) > 0

(* C5: each roster player's total equals the sum of that player's values   *)
(* over the rounds in round_history, in every reachable state; a           *)
(* successful setup leaves all totals 0 and the history empty.             *)
C5_TotalsConsistent ==
    /\ [](session.has_game =>
            /\ DOMAIN session.scores = Range(session.player_names)
            /\ \A p \in DOMAIN session.scores :
                  session.scores[p] =
                      TotalOf(p, session.round_history, Len(session.round_history)))
    /\ [][(IsPost(req, "setup") /\ resp' = Redirect("scoring"))
          => /\ session'.round_history = <<>>
             /\ \A p \in DOMAIN session'.scores : session'.scores[p] = Num(0)]_vars

\* two rounds settled, totals not all zero, and then a rejected POST
C5_Witness ==
    /\ Len(session.round_history) = 2
    /\ \E p \in DOMAIN session.scores : session.scores[p] = Num(2)
    /\ resp = ErrorText("exception", "")

(* C6: once end_game has run for the game in the session, no scoring       *)
(* request changes its history, totals or round counter.                   *)
(* Refuted: end_game leaves the session as it is and scoring never looks   *)
(* at the record, so rounds are settled after the end.                     *)
C6_EndedIsTerminal ==
    [][(Ended(session, game_records) /\ req.route = "scoring")
       => GameState(session') = GameState(session)]_vars

(* C7: a setup POST starts a game (roster, zero totals, empty history,     *)
(* round 1, a new GameRecord) only when player_count is at least 1 and     *)
(* every name field is non-empty after trimming; any other POST is         *)
(* answered with an error, changes no game state and adds no record.       *)
(* Refuted: player_count = 0 is accepted with an empty roster.             *)
C7_SetupOnlyValid ==
    [][IsPost(req, "setup") =>
        LET c == req.player_count
            complete == /\ IsInt(c)
                        /\ ToInt(c) >= 1
                        /\ \A i \in 1..ToInt(c) : Strip(req.fields[i]) # ""
        IN  IF complete
            THEN /\ resp' = Redirect("scoring")
                 /\ session'.has_game
                 /\ session'.player_names = [i \in 1..ToInt(c) |-> Strip(req.fields[i])]
                 /\ \A p \in DOMAIN session'.scores : session'.scores[p] = Num(0)
                 /\ session'.round_history = <<>>
                 /\ session'.current_round = 1
                 /\ Len(game_records') = Len(game_records) + 1
            ELSE /\ resp'.kind = "error"
                 /\ session'.has_game = session.has_game
                 /\ session'.player_names = session.player_names
                 /\ GameState(session') = GameState(session)
                 /\ game_records' = game_records]_vars

(* C8: an end_game request of a session with a game commits the game's     *)
(* record with the end time, the session's history and totals before the   *)
(* report is rendered; a failed rendering is reported on the end-game page *)
(* and the committed record stays.                                         *)
C8_CommitBeforeRender ==
    [][(req.route = "end_game" /\ session.has_game) =>
        LET g == game_records'[session.game_record_id]
        IN  /\ g.game_end_time = Some(now')
            /\ g.round_scores = JsonDumps(session.round_history)
            /\ g.total_scores = JsonDumps(session.scores)
            /\ Len(effects') = 2
            /\ effects'[1] = "commit"
            /\ effects'[2] \in {"render_ok", "render_failed"}
            /\ effects'[2] = "render_failed" <=> resp' = Page("end_game_pdf_failed")
            /\ effects'[2] = "render_ok" <=> resp' = Page("end_game")]_vars

\* a game of two rounds was ended and the report could not be rendered
C8_Witness ==
    /\ resp = Page("end_game_pdf_failed")
    /\ Len(session.round_history) = 2
    /\ Ended(session, game_records)
    /\ game_records[session.game_record_id].round_scores = JsonDumps(session.round_history)

(* C9: the roster in the session never holds a name twice, so the totals   *)
(* have one entry per roster position.                                     *)
(* Refuted: setup_game compares only the number of names.                  *)
C9_UniqueNames ==
    session.has_game =>
        /\ \A i, j \in DOMAIN session.player_names :
              session.player_names[i] = session.player_names[j] => i = j
        /\ Cardinality(DOMAIN session.scores) = Len(session.player_names)

(* C10: a UserSession is never deleted and, once its logout_time and       *)
(* duration are set, no later request changes the row.                     *)
(* Refuted: every end_game and logout writes them again.                   *)
C10_MutatedOnce ==
    [][\A i \in DOMAIN user_sessions :
          /\ i \in DOMAIN user_sessions'
          /\ user_sessions[i].logout_time # None => user_sessions'[i] = user_sessions[i]]_vars

\* The roster position at which a name appears first
FirstAppearance(player_names, p) ==
    CHOOSE i \in DOMAIN player_names :
        player_names[i] = p /\ \A j \in 1..(i - 1) : player_names[j] # p

\* a == b on floats
FEq(a, b) == ~a.nan /\ ~b.nan /\ a.v = b.v

(* C11: the ranking of a rendered report lists every player of the totals  *)
(* exactly once, no player below one with a smaller total, and players     *)
(* with equal totals in the order of their first appearance in the roster. *)
(* Refuted: the sort keeps equal totals in the order of the totals dict,   *)
(* which end_game reads from the cookie in key order, not roster order.    *)
C11_RankingOrder ==
    resp = Page("end_game") =>
        /\ Len(report) = Cardinality(DOMAIN session.scores)
        /\ \A p \in DOMAIN session.scores :
              \E i \in DOMAIN report : report[i] = <<p, session.scores[p]>>
        /\ \A i, j \in DOMAIN report :
              i < j => /\ ~FLt(report[i][2], report[j][2])
                       /\ FEq(report[i][2], report[j][2])
                          => FirstAppearance(session.player_names, report[i][1])
                             < FirstAppearance(session.player_names, report[j][1])

\* A request whose handler looks the region up
LooksUp == req.route = "login" \/ (req.route = "setup" /\ session.user_session_id = 0)

(* C12: whatever the lookup's requests come to, get_ip_location returns    *)
(* without raising after at most two requests, with the label built from   *)
(* the body when the last request was answered 200 with a JSON object and  *)
(* with 'IP: <ip>' otherwise; so login and setup_game create their         *)
(* UserSession all the same.  (An address of a private range is answered   *)
(* with the local-network label and no request.)                           *)
C12_LookupNeverFails ==
    [][LooksUp =>
        LET a == lookup'.answers
            n == Len(a)
        IN  /\ ~lookup'.raised
            /\ n <= 2
            /\ n = 0 => lookup'.ip = "127.0.0.1" /\ lookup'.label = "local_network"
            /\ n > 0 => lookup'.label =
                  (CASE a[n] = "200_place" -> "place"
                     [] a[n] = "200_no_place" -> "unknown_region"
                     [] OTHER -> <<"IP: ", lookup'.ip>>)
            /\ Len(user_sessions') = Len(user_sessions) + 1
            /\ session'.user_session_id = Len(user_sessions')
            /\ Last(user_sessions').logout_time = None]_vars

\* a login whose lookup timed out and then got an unparsable body
C12_Witness ==
    /\ lookup.answers = <<"request_exception", "200_bad_json">>
    /\ lookup.label = <<"IP: ", "8.8.8.8">>
    /\ resp = Redirect("setup_game")
    /\ session.user_session_id = Len(user_sessions)
    /\ Len(user_sessions) > 1

\* A setup POST that the handler answers with the redirect of a started game
Starts == IsPost(req, "setup") /\ resp' = Redirect("scoring")

\* The records but the one with key i
Others(gr, i) == [j \in (DOMAIN gr) \ {i} |-> gr[j]]

(* C13: a successful setup POST adds exactly one GameRecord, with the      *)
(* start time, the roster and the session's UserSession and without end    *)
(* time, history and totals; the only other change of the table is an      *)
(* end_game that sets these three on the record of the session's last      *)
(* setup; so a record has an end time iff it has history and totals, and   *)
(* its user_session_id is the key of a UserSession.                        *)
C13_RecordLifecycle ==
    /\ [](\A i \in DOMAIN game_records :
            LET g == game_records[i]
            IN  /\ g.game_end_time # None <=> g.round_scores # None
                /\ g.game_end_time # None <=> g.total_scores # None
                /\ g.user_session_id \in DOMAIN user_sessions)
    /\ [](session.has_game =>
            /\ session.game_record_id \in DOMAIN game_records
            /\ game_records[session.game_record_id].player_names
                  = JsonDumps(session.player_names))
    /\ [][Starts =>
            /\ game_records' = Append(game_records, Last(game_records'))
            /\ session'.game_record_id = Len(game_records')
            /\ LET g == Last(game_records')
               IN  /\ g.game_start_time = now'
                   /\ g.player_names = JsonDumps(session'.player_names)
                   /\ g.user_session_id = session'.user_session_id
                   /\ g.game_end_time = None
                   /\ g.round_scores = None
                   /\ g.total_scores = None]_vars
    /\ [][(game_records' # game_records /\ ~Starts) =>
            LET i == session.game_record_id
            IN  /\ req.route = "end_game"
                /\ session.has_game
                /\ DOMAIN game_records' = DOMAIN game_records
                /\ Others(game_records', i) = Others(game_records, i)
                /\ game_records'[i] =
                      [game_records[i] EXCEPT
                          !.game_end_time = Some(now'),
                          !.round_scores = JsonDumps(session.round_history),
                          !.total_scores = JsonDumps(session.scores)]]_vars

\* the second game of a session was ended after a round, the first never
C13_Witness ==
    /\ resp = Page("end_game")
    /\ session.game_record_id = 2
    /\ Len(session.round_history) > 0
    /\ game_records[2].round_scores = JsonDumps(session.round_history)
    /\ game_records[1].game_end_time = None

(* C14: a scoring POST answered with an error, whatever the reason, leaves *)
(* the session's totals, round_history and current_round as they were.     *)
C14_NoPartialCommit ==
    [][(IsPost(req, "scoring") /\ resp'.kind = "error")
       => GameState(session') = GameState(session)]_vars

\* a POST that failed while processing, in a game with one round settled
C14_Witness ==
    /\ resp = ErrorText("exception", "")
    /\ session.player_names = <<"B", "A">>
    /\ Len(session.round_history) = 1
    /\ session.scores["A"] = Num(1)

(* C15: while the session holds a game, current_round is the length of     *)
(* round_history plus 1; a successful setup sets it to 1, a settled round  *)
(* appends one round and adds 1, and no other request changes it.          *)
C15_RoundCounter ==
    /\ [](session.has_game => session.current_round = Len(session.round_history) + 1)
    /\ [][Starts => session'.current_round = 1 /\ session'.round_history = <<>>]_vars
    /\ [][Settles =>
            /\ session'.has_game
            /\ session'.current_round = session.current_round + 1
            /\ session'.round_history
                  = Append(session.round_history, Last(session'.round_history))]_vars
    /\ [][(session'.has_game
           /\ <<session'.current_round, session'.round_history>>
                 # <<session.current_round, session.round_history>>)
          => Starts \/ Settles]_vars

\* the second round of a game was just settled
C15_Witness ==
    /\ resp = Redirect("scoring")
    /\ session.current_round = 3
    /\ Len(session.round_history) = 2

(* C16: a scoring POST or an end_game request of a session without roster  *)
(* (before any successful setup, or after logout) is redirected to setup   *)
(* and changes neither the session nor any table.                          *)
C16_NeedsRoster ==
    [][((IsPost(req, "scoring") \/ req.route = "end_game") /\ ~session.has_game)
       => /\ resp' = Redirect("setup_game")
          /\ session' = session
          /\ game_records' = game_records
          /\ user_sessions' = user_sessions]_vars

\* such a request after a logout that left a record of an unfinished game
C16_Witness ==
    /\ resp = Redirect("setup_game")
    /\ lookup = NoLookup
    /\ ~session.has_game
    /\ session.user_session_id = 0
    /\ Len(game_records) > 0
    /\ game_records[1].game_end_time = None

====
